---- MODULE Spec2Model ----
(***************************************************************************)
(* State machine of the publicly SSH chat lounge (src/src/main.rs and the  *)
(* modules it uses).  Strings are sequences of atoms: an atom is one       *)
(* character ("a", ":", "!", " ") or an indivisible run of non-whitespace, *)
(* non-colon characters written as one word ("/ban", "admin", "SHA256",    *)
(* "ssh-ed25519", a base64 key blob "K1", a digest "F1").                  *)
(* Handlers run as one step each; the tasks they spawn (render, the        *)
(* deferred removal of Drop) are steps of their own.                       *)
(***************************************************************************)
EXTENDS Integers, Sequences, FiniteSets, TLC

\* ------------------------------------------------------------------ bounds
MaxConns == 2       \* connections accepted by new_client
MaxSessions == 3    \* the same, where several sessions share one key
MaxPersonas == 4    \* persona cells ever allocated (load, /reload, /add)
MaxRenders == 1     \* render tasks spawned and not yet run
MaxPending == 2     \* the same, where render tasks of several events wait together
MaxTasks == 2       \* handlers and tasks running at the same time
MaxSink == 2        \* bytes written to a sink between two flushes
MaxFlush == 2       \* flushes of one TerminalHandle
MaxChans == 2       \* channels with an output pump

\* --------------------------------------------------------------- constants
history_size == 2   \* Args.history_size, the capacity of the history

NoKey == "nokey"
SP == " "
COLON == ":"
Algo == "ssh-ed25519"

KeyBlobs == {"K1", "K2", "K3"}

Digest == [k \in KeyBlobs |-> CASE k = "K1" -> "F1" [] k = "K2" -> "F2" [] OTHER -> "F3"]

Ids == 0 .. (MaxConns + MaxSessions)

\* ----------------------------------------------------- partial-map helpers
Insert(f, k, v) == [x \in (DOMAIN f) \cup {k} |-> IF x = k THEN v ELSE f[x]]

Remove(f, k) == [x \in (DOMAIN f) \ {k} |-> f[x]]

EmptyMap == [x \in {} |-> 0]

Range(s) == {s[i] : i \in DOMAIN s}

\* ------------------------------------------------------------ string model
\* str::split(char::is_whitespace): one token per separator, empty tokens kept
SplitStep(c, rest) ==
  IF c = SP THEN << <<>> >> \o rest ELSE << <<c>> \o Head(rest) >> \o Tail(rest)

RECURSIVE Split(_)
Split(s) == IF s = <<>> THEN << <<>> >> ELSE SplitStep(Head(s), Split(Tail(s)))

RECURSIVE JoinSp(_)
JoinSp(parts) ==
  IF parts = <<>> THEN <<>>
  ELSE IF Len(parts) = 1 THEN parts[1]
  ELSE parts[1] \o <<SP>> \o JoinSp(Tail(parts))

\* position of the first / last ":" of s, 0 when there is none
FirstColon(s) ==
  IF \E i \in DOMAIN s : s[i] = COLON
  THEN CHOOSE i \in DOMAIN s : s[i] = COLON /\ \A j \in 1 .. (i - 1) : s[j] # COLON
  ELSE 0

LastColon(s) ==
  IF \E i \in DOMAIN s : s[i] = COLON
  THEN CHOOSE i \in DOMAIN s : s[i] = COLON /\ \A j \in (i + 1) .. Len(s) : s[j] # COLON
  ELSE 0

OkChars == {"a", "b", "c", "@", "_", "-", "."}

\* words made of ASCII alphanumerics only
AlnumWords == {"admin", "guest", "SHA256", "hi", "K1", "K2", "K3", "F1", "F2", "F3"}

\* keeps ASCII alphanumerics and @ _ - . and drops every other character
RECURSIVE sanitize_name(_)
sanitize_name(s) ==
  IF s = <<>> THEN <<>>
  ELSE IF Head(s) \in OkChars \/ Head(s) \in AlnumWords
       THEN <<Head(s)>> \o sanitize_name(Tail(s))
       ELSE sanitize_name(Tail(s))

\* PublicKey::from_openssh: "<algo> <base64> [comment]"
OpensshParts(parts) ==
  IF Len(parts) >= 2 /\ parts[1] = <<Algo>> /\ Len(parts[2]) = 1 /\ parts[2][1] \in KeyBlobs
  THEN [ok |-> TRUE, key |-> parts[2][1], comment |-> JoinSp(SubSeq(parts, 3, Len(parts)))]
  ELSE [ok |-> FALSE, key |-> NoKey, comment |-> <<>>]

from_openssh(s) == OpensshParts(Split(s))

\* comment.rsplit_once(":") and the role it selects
RsplitOnce(comment, i) ==
  IF i = 0 THEN [ok |-> TRUE, name |-> sanitize_name(comment), role |-> "Normal"]
  ELSE IF SubSeq(comment, i + 1, Len(comment)) = <<"admin">>
       THEN [ok |-> TRUE, name |-> sanitize_name(SubSeq(comment, 1, i - 1)), role |-> "Admin"]
       ELSE [ok |-> FALSE, name |-> <<>>, role |-> "Normal"]

ParseComment(comment) == RsplitOnce(comment, LastColon(comment))

NoEntity(err) == [ok |-> FALSE, err |-> err, key |-> NoKey, name |-> <<>>, role |-> "Normal"]

EntityOf(key, c) ==
  IF ~c.ok THEN NoEntity("InvalidRole")
  ELSE [ok |-> TRUE, err |-> "none", key |-> key, name |-> c.name, role |-> c.role]

EntityOfKey(k) == IF ~k.ok THEN NoEntity("PublicKeyParsing") ELSE EntityOf(k.key, ParseComment(k.comment))

\* an entity before it gets its shared persona cell: key, name, role
ParseEntity(s) == EntityOfKey(from_openssh(s))

Entity_from_str(s) == ParseEntity(s)

Entity_try_from(s) == ParseEntity(s)

\* Entity::fingerprint
fingerprint(key) == <<"SHA256", COLON, Digest[key]>>

WithComment(key, comment) ==
  <<Algo, SP, key>> \o (IF comment = <<>> THEN <<>> ELSE <<SP>> \o comment)

\* to_pubkey that writes the name alone
to_pubkey_NoRole(e, pers) == WithComment(e.key, pers[e.pid].name)

\* PublicKey::to_string of Entity::to_pubkey: the comment is name or name:admin
to_pubkey(e, pers) ==
  WithComment(e.key, pers[e.pid].name \o (IF pers[e.pid].role = "Admin" THEN <<COLON, "admin">> ELSE <<>>))

SplitOnce(s, i) ==
  IF i = 0 THEN [ok |-> TRUE, kind |-> "Name", arg |-> s]
  ELSE IF /\ SubSeq(s, 1, i - 1) = <<"SHA256">>
          /\ SubSeq(s, i + 1, Len(s)) # <<>>
          /\ FirstColon(SubSeq(s, i + 1, Len(s))) = 0
       THEN [ok |-> TRUE, kind |-> "Sha256", arg |-> s]
       ELSE [ok |-> FALSE, kind |-> "Name", arg |-> s]

\* EntityLookup::from_str
EntityLookup_from_str(s) == SplitOnce(s, FirstColon(s))

\* EntityLookup::matches
matches(lookup, e, pers) ==
  IF lookup.kind = "Name" THEN pers[e.pid].name = lookup.arg
  ELSE fingerprint(e.key) = lookup.arg

AdminTokens == {<<"/add">>, <<"/rename">>, <<"/ban">>, <<"/commit">>, <<"/reload">>}

SlashTokens == AdminTokens \cup {<<"/info">>}

NoCmd == [kind |-> "None", lookup |-> [ok |-> TRUE, kind |-> "Name", arg |-> <<>>],
          entity |-> [ok |-> TRUE, err |-> "none", key |-> NoKey, name |-> <<>>, role |-> "Normal"],
          from |-> <<>>, to |-> <<>>]

Parsed(c) == [err |-> "none", arg |-> <<>>, cmd |-> c]

ParseFail(e, a) == [err |-> e, arg |-> a, cmd |-> NoCmd]

LookupCmd(kind, l) ==
  IF l.ok THEN Parsed([NoCmd EXCEPT !.kind = kind, !.lookup = l]) ELSE ParseFail("EntityLookup", l.arg)

AddCmd(e) ==
  IF e.ok THEN Parsed([NoCmd EXCEPT !.kind = "Add", !.entity = e]) ELSE ParseFail("EntityParsing", <<e.err>>)

\* the second arm of the match never taken
NotAdminGate_Open(split, is_admin) == FALSE

\* the guard of the second arm of the match (main.rs 691)
NotAdminGate(split, is_admin) == split[1] \in AdminTokens /\ ~is_admin

\* the match of Command::parse on the split text
ParseSplit(split, text, is_admin, name) ==
  IF Len(split) = 2 /\ split[1] = <<"/info">> THEN LookupCmd("Info", EntityLookup_from_str(split[2]))
  ELSE IF NotAdminGate(split, is_admin) THEN ParseFail("NotAnAdmin", name)
  ELSE IF Len(split) = 2 /\ split[1] = <<"/add">> THEN AddCmd(Entity_from_str(split[2]))
  ELSE IF Len(split) = 2 /\ split[1] = <<"/ban">> THEN LookupCmd("Ban", EntityLookup_from_str(split[2]))
  ELSE IF Len(split) = 1 /\ split[1] = <<"/commit">> THEN Parsed([NoCmd EXCEPT !.kind = "Commit"])
  ELSE IF Len(split) = 1 /\ split[1] = <<"/reload">> THEN Parsed([NoCmd EXCEPT !.kind = "Reload"])
  ELSE IF Len(split) = 3 /\ split[1] = <<"/rename">>
       THEN Parsed([NoCmd EXCEPT !.kind = "Rename", !.from = split[2], !.to = split[3]])
  ELSE IF split[1] \in SlashTokens THEN ParseFail("CommandParse", text)
  ELSE Parsed(NoCmd)

\* Command::parse: err is "none" or the kind of the Error returned
Command_parse(text, role, name) == ParseSplit(Split(text), text, role = "Admin", name)

\* ------------------------------------------------------------------- state
VARIABLES
  authfile,          \* the lines of the authfile on disk
  keychain,          \* AppServer.keychain: sequence of entities [key, pid]
  key_data_pool,     \* AppServer.key_data_pool
  key_data_to_user,  \* AppServer.key_data_to_user: key -> entity
  key_data_to_id,    \* AppServer.key_data_to_id: key -> sequence of ids
  id_to_user,        \* AppServer.id_to_user: id -> entity
  clients,           \* AppServer.clients: id -> Client
  personas,          \* the shared persona cells, indexed by entity.pid
  history,           \* App.history
  renders,           \* history snapshots of the render tasks not yet run
  next_id,           \* the id field of the listening AppServer
  issued,            \* ids of the handlers new_client returned, in order
  phase,             \* per id: none, preauth, authed, open, ended, dropped
  banned,            \* keys a /ban took out of the pool since the last load
  last,              \* what the step just taken did
  lk,                \* the RwLocks: per running task its handler, position and guards
  pump               \* per channel its TerminalHandle, the queue to its writer and the data calls

vars == <<authfile, keychain, key_data_pool, key_data_to_user, key_data_to_id,
          id_to_user, clients, personas, history, renders, next_id, issued,
          phase, banned, last, lk, pump>>

\* the state of the server without the lock-level view
srv == <<authfile, keychain, key_data_pool, key_data_to_user, key_data_to_id,
         id_to_user, clients, personas, history, renders, next_id, issued,
         phase, banned, last>>

\* the part of the state the handlers of one session work on
Cur == [authfile |-> authfile, keychain |-> keychain, key_data_pool |-> key_data_pool,
        key_data_to_user |-> key_data_to_user, key_data_to_id |-> key_data_to_id,
        id_to_user |-> id_to_user, clients |-> clients, personas |-> personas,
        history |-> history, renders |-> renders, banned |-> banned]

Store(st) ==
  /\ authfile' = st.authfile
  /\ keychain' = st.keychain
  /\ key_data_pool' = st.key_data_pool
  /\ key_data_to_user' = st.key_data_to_user
  /\ key_data_to_id' = st.key_data_to_id
  /\ id_to_user' = st.id_to_user
  /\ clients' = st.clients
  /\ personas' = st.personas
  /\ history' = st.history
  /\ renders' = st.renders
  /\ banned' = st.banned

NoLast == [op |-> "init", id |-> 0 - 1, cmd |-> "None", res |-> "ok",
           key |-> NoKey, evicted |-> {}, closed |-> {}, pool |-> {},
           token |-> <<>>, text |-> <<>>, role |-> "Normal", wrote |-> FALSE, snapshot |-> <<>>, frames |-> EmptyMap]

\* outcome of a handler: the new state and how it ended
Out(st) == [st |-> st, res |-> "ok", arg |-> <<>>, cmd |-> "None", key |-> NoKey,
            evicted |-> {}, closed |-> {}, pool |-> {}, wrote |-> FALSE]

NoStatus == [kind |-> "none", arg |-> <<>>]

\* ------------------------------------------------------------ the authfile
LineA == <<Algo, SP, "K1", SP, "a", COLON, "admin">>

LineB == <<Algo, SP, "K2", SP, "b">>

LineBGuest == <<Algo, SP, "K2", SP, "b", COLON, "guest">>

\* the line of the admin without its role
LineANormal == <<Algo, SP, "K1", SP, "a">>

\* the key of b under another name
LineC == <<Algo, SP, "K2", SP, "c">>

\* what the operator may leave on disk
Files == {<<LineA, LineB>>, <<LineA>>}

NoLines == [ok |-> TRUE, err |-> "none", entities |-> <<>>]

ReadStep(e, r) ==
  IF ~e.ok THEN [ok |-> FALSE, err |-> e.err, entities |-> <<>>]
  ELSE IF ~r.ok THEN r
  ELSE [r EXCEPT !.entities = <<e>> \o r.entities]

\* authfile::read, the parsing of the lines: the first bad line is the error
RECURSIVE ReadLines(_)
ReadLines(lines) ==
  IF lines = <<>> THEN NoLines ELSE ReadStep(Entity_try_from(Head(lines)), ReadLines(Tail(lines)))

\* the Arc<Entity> values of parsed lines; their persona cells start at base + 1
MkEntities(parsed, base) == [i \in 1 .. Len(parsed) |-> [key |-> parsed[i].key, pid |-> base + i]]

MkPersonas(parsed) == [i \in 1 .. Len(parsed) |-> [name |-> parsed[i].name, role |-> parsed[i].role]]

build_key_data_pool(entities) == {entities[i].key : i \in DOMAIN entities}

AuthFile(r, base) ==
  [ok |-> r.ok, err |-> r.err, entities |-> MkEntities(r.entities, base),
   personas |-> MkPersonas(r.entities), key_pool |-> build_key_data_pool(r.entities)]

\* authfile::read
read(lines, base) == AuthFile(ReadLines(lines), base)

\* the HashMap built from the entities in order: a later line replaces an earlier one
KeyToUser(entities) ==
  [k \in build_key_data_pool(entities) |->
     entities[CHOOSE i \in DOMAIN entities :
                /\ entities[i].key = k
                /\ \A j \in DOMAIN entities : entities[j].key = k => j <= i]]

\* ------------------------------------------------------------ chat history
Msg(type, action, pid, contents, requested_by) ==
  [type |-> type, action |-> action, pid |-> pid, contents |-> contents, requested_by |-> requested_by]

\* a full buffer that gives up its newest element instead
enqueue_DropNewest(h, m) ==
  IF Len(h) >= history_size THEN SubSeq(h, 1, Len(h) - 1) \o <<m>> ELSE Append(h, m)

\* AllocRingBuffer::enqueue: a full buffer loses its oldest element
enqueue(h, m) == IF Len(h) >= history_size THEN Tail(h) \o <<m>> ELSE Append(h, m)

\* AppServer::render up to the spawn: the task owns a snapshot of the history
render(st) == [st EXCEPT !.renders = @ \cup {st.history}]

\* AppServer::announce; the caller has checked that id is in id_to_user
announce(st, id, action) ==
  [st EXCEPT !.history = enqueue(@, Msg("Announce", action, st.id_to_user[id].pid, <<>>, 0 - 1))]

RoleText(role) == IF role = "Admin" THEN "admin" ELSE "normal"

\* Message::text_content
text_content(m, pers) ==
  IF m.type = "Announce"
  THEN <<m.action>> \o pers[m.pid].name \o <<RoleText(pers[m.pid].role)>>
  ELSE m.contents

\* render without the test on requested_by
Hidden_Never(m, id) == FALSE

\* render, the test that keeps a dossier from the other clients (main.rs 156-161)
Hidden(m, id) == m.type = "Dossier" /\ m.requested_by # id

Paragraph(m, pers) == [type |-> m.type, requested_by |-> m.requested_by, text |-> text_content(m, pers)]

\* render, the paragraphs built for one client, oldest first (main.rs 154-164)
RECURSIVE paragraphs(_, _, _)
paragraphs(h, id, pers) ==
  IF h = <<>> THEN <<>>
  ELSE IF Hidden(Head(h), id) THEN paragraphs(Tail(h), id, pers)
  ELSE <<Paragraph(Head(h), pers)>> \o paragraphs(Tail(h), id, pers)

\* --------------------------------------------------------- command executor
\* Handle::close succeeds while the session of that id is still running
close_ok(ph, id) == ph[id] \notin {"ended", "dropped"}

CloseFailed(o, id) ==
  [o EXCEPT !.res = "ClientDisconnectFailed", !.arg = <<id>>, !.closed = @ \cup {id}]

\* reload, one id of a stray key (main.rs 111-116)
ReloadEvictOne(o, id) ==
  [o EXCEPT !.st.clients = Remove(@, id),
            !.st.id_to_user = IF id \in DOMAIN @ THEN Remove(@, id) ELSE @,
            !.closed = @ \cup {id},
            !.evicted = @ \cup {id}]

\* reload, the loop over the ids of one stray key (main.rs 110-117)
RECURSIVE ReloadEvict(_, _, _)
ReloadEvict(ids, o, ph) ==
  IF ids = <<>> THEN o
  ELSE IF Head(ids) \notin DOMAIN o.st.clients THEN [o EXCEPT !.res = "panic"]
  ELSE IF ~close_ok(ph, Head(ids)) THEN CloseFailed(o, Head(ids))
  ELSE ReloadEvict(Tail(ids), ReloadEvictOne(o, Head(ids)), ph)

\* reload, after the ids of one stray key (main.rs 119-120)
RECURSIVE ReloadStrays(_, _, _)
ReloadNext(r, strays, ph) ==
  IF r.res # "ok" THEN r
  ELSE ReloadStrays(Tail(strays), [r EXCEPT !.st.key_data_to_id = Remove(@, Head(strays))], ph)

\* reload, the loop over the stray keys in the order the set yields them (main.rs 104-121)
ReloadStrays(strays, o, ph) ==
  IF strays = <<>> THEN o
  ELSE IF Head(strays) \notin DOMAIN o.st.key_data_to_id THEN ReloadStrays(Tail(strays), o, ph)
  ELSE ReloadNext(ReloadEvict(o.st.key_data_to_id[Head(strays)], o, ph), strays, ph)

\* reload that leaves key_data_to_user as it was
ReloadSwap_KeepMap(r, new_keychain) ==
  IF r.res # "ok" THEN r
  ELSE [r EXCEPT !.st.keychain = new_keychain.entities,
                 !.st.key_data_pool = new_keychain.key_pool,
                 !.st.personas = @ \o new_keychain.personas,
                 !.st.banned = {}]

\* reload, the replacement of the three indexes (main.rs 123-131)
ReloadSwap(r, new_keychain) ==
  IF r.res # "ok" THEN r
  ELSE [r EXCEPT !.st.key_data_to_user = KeyToUser(new_keychain.entities),
                 !.st.keychain = new_keychain.entities,
                 !.st.key_data_pool = new_keychain.key_pool,
                 !.st.personas = @ \o new_keychain.personas,
                 !.st.banned = {}]

\* the keys of seq that are in set, in the order of seq
Strays(order, set) == SelectSeq(order, LAMBDA k : k \in set)

ReloadWith(st, new_keychain, order, ph) ==
  IF ~new_keychain.ok
  THEN [Out(st) EXCEPT !.cmd = "Reload", !.res = "Authfile", !.arg = <<new_keychain.err>>]
  ELSE ReloadSwap(ReloadStrays(Strays(order, st.key_data_pool \ new_keychain.key_pool),
                               [Out(st) EXCEPT !.cmd = "Reload", !.pool = new_keychain.key_pool],
                               ph),
                  new_keychain)

\* std::fs::File::open or a line of the reader fails (authfile.rs 25, 29)
FileNotReadable ==
  [ok |-> FALSE, err |-> "FileNotReadable", entities |-> <<>>, personas |-> <<>>, key_pool |-> {}]

\* AppServer::reload; nd.io tells whether the file can be read, nd.order is the
\* iteration order of the key pool
reload(st, nd, ph) ==
  ReloadWith(st, IF nd.io THEN read(st.authfile, Len(st.personas)) ELSE FileNotReadable, nd.order, ph)

\* index of the first entity of the keychain the lookup matches, 0 when none does
FirstMatch(st, lookup) ==
  IF \E i \in DOMAIN st.keychain : matches(lookup, st.keychain[i], st.personas)
  THEN CHOOSE i \in DOMAIN st.keychain :
         /\ matches(lookup, st.keychain[i], st.personas)
         /\ \A j \in 1 .. (i - 1) : ~matches(lookup, st.keychain[j], st.personas)
  ELSE 0

\* Command::Ban, one id of the banned key (main.rs 332-335)
BanEvictOne(o, id) ==
  [o EXCEPT !.st.clients = Remove(@, id), !.closed = @ \cup {id}, !.evicted = @ \cup {id}]

\* Command::Ban, the loop over the ids of the banned key (main.rs 327-336)
RECURSIVE BanEvict(_, _, _)
BanEvict(ids, o, ph) ==
  IF ids = <<>> THEN o
  ELSE IF Head(ids) \notin DOMAIN o.st.clients THEN BanEvict(Tail(ids), o, ph)
  ELSE IF ~close_ok(ph, Head(ids)) THEN CloseFailed(o, Head(ids))
  ELSE BanEvict(Tail(ids), BanEvictOne(o, Head(ids)), ph)

\* Command::Ban that also takes the entity out of the keychain
BanKey_DropEntity(st, key_data) ==
  [Out(st) EXCEPT !.cmd = "Ban", !.key = key_data,
                  !.st.keychain = SelectSeq(@, LAMBDA e : e.key # key_data),
                  !.st.key_data_to_user = IF key_data \in DOMAIN @ THEN Remove(@, key_data) ELSE @,
                  !.st.key_data_pool = @ \ {key_data},
                  !.st.banned = @ \cup {key_data}]

\* Command::Ban that leaves the key in the pool
BanKey_KeepPool(st, key_data) ==
  [Out(st) EXCEPT !.cmd = "Ban", !.key = key_data,
                  !.st.key_data_to_user = IF key_data \in DOMAIN @ THEN Remove(@, key_data) ELSE @,
                  !.st.banned = @ \cup {key_data}]

\* Command::Ban, the removal of the key from the pool and the map (main.rs 316-320)
BanKey(st, key_data) ==
  [Out(st) EXCEPT !.cmd = "Ban", !.key = key_data,
                  !.st.key_data_to_user = IF key_data \in DOMAIN @ THEN Remove(@, key_data) ELSE @,
                  !.st.key_data_pool = @ \ {key_data},
                  !.st.banned = @ \cup {key_data}]

\* Command::Ban, the removal of the ids of the key (main.rs 322-325)
BanIds(o, key_data, ph) ==
  IF key_data \notin DOMAIN o.st.key_data_to_id THEN o
  ELSE BanEvict(o.st.key_data_to_id[key_data], [o EXCEPT !.st.key_data_to_id = Remove(@, key_data)], ph)

\* Command::Ban without the test that keeps users from banning themselves
IsSelf_Never(st, self, key_data) == FALSE

\* Command::Ban, the test on the key of the issuer (main.rs 311)
IsSelf(st, self, key_data) == st.id_to_user[self].key = key_data

BanFound(st, self, i, ph) ==
  IF i = 0 THEN [Out(st) EXCEPT !.cmd = "Ban"]
  ELSE IF self \notin DOMAIN st.id_to_user THEN [Out(st) EXCEPT !.cmd = "Ban", !.res = "panic"]
  ELSE IF IsSelf(st, self, st.keychain[i].key) THEN [Out(st) EXCEPT !.cmd = "Ban", !.res = "NoBanSelf"]
  ELSE BanIds(BanKey(st, st.keychain[i].key), st.keychain[i].key, ph)

\* Command::Ban (main.rs 297-337)
ban(st, self, lookup, ph) == BanFound(st, self, FirstMatch(st, lookup), ph)

Dossier(e, pers) ==
  <<"name:">> \o pers[e.pid].name \o <<"role:", RoleText(pers[e.pid].role), "fingerprint:">>
  \o fingerprint(e.key)

InfoFound(st, self, i) ==
  IF i = 0 THEN [Out(st) EXCEPT !.cmd = "Info"]
  ELSE [Out(st) EXCEPT !.cmd = "Info",
                       !.st.history = enqueue(@, Msg("Dossier", "none", 0, Dossier(st.keychain[i], st.personas), self))]

\* Command::Info (main.rs 266-296)
info(st, self, lookup) == InfoFound(st, self, FirstMatch(st, lookup))

\* Command::Add (main.rs 190-202)
add(st, entity) ==
  [Out(st) EXCEPT !.cmd = "Add",
                  !.st.personas = Append(@, [name |-> entity.name, role |-> entity.role]),
                  !.st.keychain = Append(@, [key |-> entity.key, pid |-> Len(st.personas) + 1]),
                  !.st.key_data_pool = @ \cup {entity.key},
                  !.st.key_data_to_user = Insert(@, entity.key, [key |-> entity.key, pid |-> Len(st.personas) + 1]),
                  !.st.banned = @ \ {entity.key}]

\* Entity::set_name of entity.rs
set_name(st, pid, name) == [st EXCEPT !.personas[pid].name = sanitize_name(name)]

\* Command::Rename, the scan of the keychain from position i (main.rs 204-241)
RECURSIVE RenameFrom(_, _, _, _)
RenameFrom(st, i, from, to) ==
  IF i > Len(st.keychain) THEN st
  ELSE IF st.personas[st.keychain[i].pid].name # from THEN RenameFrom(st, i + 1, from, to)
  ELSE IF st.keychain[i].key \notin DOMAIN st.key_data_to_id THEN set_name(st, st.keychain[i].pid, to)
  ELSE RenameFrom(set_name(st, st.keychain[i].pid, to), i + 1, from, to)

rename(st, from, to) == [Out(RenameFrom(st, 1, from, to)) EXCEPT !.cmd = "Rename"]

\* Command::Commit (main.rs 243-265); io tells whether the write and the rename succeed
commit(st, io) ==
  [Out(IF io
       THEN [st EXCEPT !.authfile = [i \in 1 .. Len(st.keychain) |-> to_pubkey(st.keychain[i], st.personas)]]
       ELSE st)
     EXCEPT !.cmd = "Commit", !.wrote = io]

\* AppServer::run_command
run_command(st, self, command, nd, ph) ==
  CASE command.kind = "Add" -> add(st, command.entity)
    [] command.kind = "Rename" -> rename(st, command.from, command.to)
    [] command.kind = "Commit" -> commit(st, nd.io)
    [] command.kind = "Info" -> info(st, self, command.lookup)
    [] command.kind = "Ban" -> ban(st, self, command.lookup, ph)
    [] OTHER -> reload(st, nd, ph)

\* the statusline of the issuer shows the error
SetStatus(st, self, kind, arg) ==
  IF self \in DOMAIN st.clients
  THEN [st EXCEPT !.clients[self].statusline = [kind |-> kind, arg |-> arg]]
  ELSE st

\* handle_message, the error of run_command goes to the statusline (main.rs 390-401)
StatusOf(r, self) ==
  IF r.res \in {"ok", "panic"} THEN r ELSE [r EXCEPT !.st = SetStatus(r.st, self, r.res, r.arg)]

\* a plain chat message whose render takes the history before the enqueue
Plain_RenderFirst(st, name, text) ==
  [Out([render(st) EXCEPT !.history = enqueue(@, Msg("Plain", "none", 0,
                                                     <<"[">> \o name \o <<"]", COLON, SP>> \o text, 0 - 1))])
     EXCEPT !.cmd = "Plain"]

\* handle_message, a plain chat message (main.rs 380-389)
Plain(st, name, text) ==
  [Out(render([st EXCEPT !.history = enqueue(@, Msg("Plain", "none", 0,
                                                     <<"[">> \o name \o <<"]", COLON, SP>> \o text, 0 - 1))]))
     EXCEPT !.cmd = "Plain"]

\* handle_message, from the parsed command on (main.rs 364-402)
HandleParsed(st, self, text, name, parsed, nd, ph) ==
  IF parsed.err # "none"
  THEN [Out(SetStatus(st, self, parsed.err, parsed.arg)) EXCEPT !.res = parsed.err, !.arg = parsed.arg]
  ELSE IF parsed.cmd.kind = "None" THEN Plain(st, name, text)
  ELSE StatusOf(run_command(st, self, parsed.cmd, nd, ph), self)

HandleAs(st, self, text, p, nd, ph) ==
  HandleParsed(st, self, text, p.name, Command_parse(text, p.role, p.name), nd, ph)

\* AppServer::handle_message (main.rs 343-403)
handle_message(st, self, text, nd, ph) ==
  IF self \notin DOMAIN st.clients THEN Out(st)
  ELSE IF self \notin DOMAIN st.id_to_user THEN [Out(st) EXCEPT !.res = "panic"]
  ELSE HandleAs(st, self, text, st.personas[st.id_to_user[self].pid], nd, ph)

\* --------------------------------------------------------- session handlers
\* new_client without the increment of the counter
new_client_NoIncrement(server_id) == [handler |-> server_id, server |-> server_id]

\* Server::new_client (main.rs 408-412): the handler is the clone taken before the increment
new_client(server_id) == [handler |-> server_id, server |-> server_id + 1]

\* auth_publickey that binds the id and leaves key_data_to_id alone
auth_publickey_NoPush(st, self, key) ==
  IF key \in DOMAIN st.key_data_to_user
  THEN [Out([st EXCEPT !.id_to_user = Insert(@, self, st.key_data_to_user[key])])
          EXCEPT !.res = "Accept", !.key = key]
  ELSE [Out(st) EXCEPT !.res = "Reject", !.key = key]

\* Handler::auth_publickey (main.rs 466-483)
auth_publickey(st, self, key) ==
  IF key \in DOMAIN st.key_data_to_user
  THEN [Out([st EXCEPT !.id_to_user = Insert(@, self, st.key_data_to_user[key]),
                       !.key_data_to_id = Insert(@, key, (IF key \in DOMAIN @ THEN @[key] ELSE <<>>) \o <<self>>)])
          EXCEPT !.res = "Accept", !.key = key]
  ELSE [Out(st) EXCEPT !.res = "Reject", !.key = key]

\* Handler::channel_open_session (main.rs 421-464)
channel_open_session(st, self) ==
  IF self \notin DOMAIN st.id_to_user THEN [Out(st) EXCEPT !.res = "panic"]
  ELSE Out(announce([st EXCEPT !.clients = Insert(@, self, [statusline |-> NoStatus])], self, "Joined"))

\* the Ctrl-C branch, the removal of the session (main.rs 496-519)
Leave(st, self, stray_key_data) ==
  [Out([st EXCEPT !.key_data_to_id = IF stray_key_data \in DOMAIN @ THEN Remove(@, stray_key_data) ELSE @,
                  !.id_to_user = Remove(@, self),
                  !.clients = IF self \in DOMAIN @ THEN Remove(@, self) ELSE @])
     EXCEPT !.res = "Disconnect", !.key = stray_key_data]

\* Handler::data, the Ctrl-C branch (main.rs 493-520)
ctrl_c(st, self) ==
  IF self \notin DOMAIN st.id_to_user THEN [Out(st) EXCEPT !.res = "panic"]
  ELSE Leave(render(announce(st, self, "Left")), self, st.id_to_user[self].key)

ThenRender(r) == IF r.res = "panic" THEN r ELSE [r EXCEPT !.st = render(r.st)]

\* Handler::data, the Return branch (main.rs 522-532)
enter(st, self, text, nd, ph) == ThenRender(handle_message(st, self, text, nd, ph))

\* pty_request, window_change_request and the keystroke branches of data:
\* they touch the terminal or the textarea of the client and render
redraw(st, self) == IF self \in DOMAIN st.clients THEN Out(render(st)) ELSE Out(st)

\* the task Drop spawns (main.rs 668-671)
drop(st, self) == [st EXCEPT !.clients = IF self \in DOMAIN @ THEN Remove(@, self) ELSE @]

\* ------------------------------------------------------------------- locks
\* the fields of AppServer behind a tokio RwLock (main.rs 56-66)
Locks == {"keychain", "key_data_pool", "key_data_to_user", "key_data_to_id",
          "id_to_user", "clients", "app"}

Tasks == 1 .. MaxTasks

Acq(l, m) == [a |-> "acq", ls |-> {l}, m |-> m]

Rel(ls) == [a |-> "rel", ls |-> ls, m |-> "R"]

\* AppServer::entity (main.rs 138): the read guard is a temporary
EntityCall == <<Acq("id_to_user", "R"), Rel({"id_to_user"})>>

\* AppServer::announce (main.rs 142-144)
AnnounceCall == EntityCall \o <<Acq("app", "W"), Rel({"app"})>>

\* AppServer::render up to the spawn (main.rs 149)
RenderCall == <<Acq("app", "R"), Rel({"app"})>>

\* handle_message up to run_command (main.rs 345, 362, 363)
HandleCall == <<Acq("clients", "W"), Rel({"clients"})>> \o EntityCall \o EntityCall

\* the Return branch of data around a command (main.rs 523-531)
EnterCall(body) == HandleCall \o body \o RenderCall

\* the locks each handler takes and drops, in program order; /add is left out,
\* no text parses to Command::Add
Programs ==
  [auth_publickey |->
     <<Acq("key_data_to_user", "R"), Acq("id_to_user", "W"), Acq("key_data_to_id", "W"),
       Rel({"key_data_to_user", "id_to_user", "key_data_to_id"})>>,
   channel_open_session |->
     EntityCall \o <<Acq("clients", "W"), Rel({"clients"})>> \o AnnounceCall,
   ctrl_c |->
     AnnounceCall \o RenderCall \o
     <<Acq("key_data_to_id", "W"), Acq("id_to_user", "W"), Acq("clients", "W"),
       Rel({"clients"}), Rel({"key_data_to_id", "id_to_user"})>>,
   plain |-> EnterCall(<<Acq("app", "W"), Rel({"app"})>> \o RenderCall),
   rename |->
     EnterCall(<<Acq("keychain", "R"), Acq("key_data_to_id", "R"), Rel({"key_data_to_id"}),
                 Acq("clients", "W"), Rel({"clients"}), Rel({"keychain"})>>),
   commit |-> EnterCall(<<Acq("keychain", "R"), Rel({"keychain"})>>),
   info |->
     EnterCall(<<Acq("keychain", "R"), Acq("app", "W"), Rel({"app"}), Rel({"keychain"})>>),
   ban |->
     EnterCall(<<Acq("keychain", "R")>> \o EntityCall \o
               <<Acq("key_data_to_user", "W"), Acq("key_data_pool", "W"),
                 Acq("key_data_to_id", "W"), Acq("clients", "W"),
                 Rel({"keychain", "key_data_to_user", "key_data_pool", "key_data_to_id",
                      "clients"})>>),
   reload |->
     EnterCall(<<Acq("keychain", "W"), Acq("key_data_pool", "W"), Acq("key_data_to_id", "W"),
                 Acq("key_data_to_user", "W"), Acq("clients", "W"), Acq("id_to_user", "W"),
                 Rel(Locks \ {"app"})>>),
   render_task |-> <<Acq("clients", "W"), Rel({"clients"})>>,
   drop_task |-> <<Acq("clients", "W"), Rel({"clients"})>>]

Idle == [prog |-> "none", pc |-> 0, held |-> {}]

NoTasks == [t \in Tasks |-> Idle]

\* the step task t is about to take
StepOf(t) == Programs[lk[t].prog][lk[t].pc]

AtStep(t) == lk[t].pc > 0 /\ lk[t].pc <= Len(Programs[lk[t].prog])

\* the lock task t asks for next
Wants(t) == CHOOSE l \in StepOf(t).ls : TRUE

\* RwLock: a writer excludes everyone, a reader excludes writers
Blocks(u, t) ==
  /\ u # t
  /\ \E g \in lk[u].held : g.l = Wants(t) /\ (g.m = "W" \/ StepOf(t).m = "W")

Requesting(t) == AtStep(t) /\ StepOf(t).a = "acq"

\* a handler or a spawned task starts
LockStart(t, h) ==
  /\ lk[t] = Idle
  /\ lk' = [lk EXCEPT ![t] = [prog |-> h, pc |-> 1, held |-> {}]]
  /\ UNCHANGED <<srv, pump>>

\* read().await or write().await returns the guard
LockAcquire(t) ==
  /\ Requesting(t)
  /\ \A u \in Tasks : ~Blocks(u, t)
  /\ lk' = [lk EXCEPT ![t].held = @ \cup {[l |-> Wants(t), m |-> StepOf(t).m]}, ![t].pc = @ + 1]
  /\ UNCHANGED <<srv, pump>>

\* guards go out of scope
LockRelease(t) ==
  /\ AtStep(t) /\ StepOf(t).a = "rel"
  /\ lk' = [lk EXCEPT ![t].held = {g \in @ : g.l \notin StepOf(t).ls}, ![t].pc = @ + 1]
  /\ UNCHANGED <<srv, pump>>

\* the handler returns
LockReturn(t) ==
  /\ lk[t].pc > 0 /\ ~AtStep(t)
  /\ lk' = [lk EXCEPT ![t] = Idle]
  /\ UNCHANGED <<srv, pump>>

\* ------------------------------------------------------------- output pump
Chans == 1 .. MaxChans

Bytes == {"x"}

\* TerminalHandle::start: an empty sink and an empty queue to the writer task;
\* sent lists the data calls of the writer, flushed the chunks handed to send
NoOutput == [sink |-> <<>>, queue |-> <<>>, sent |-> <<>>, flushed |-> <<>>]

\* Write::write for TerminalHandle
write(h, buf) == [h EXCEPT !.sink = @ \o buf]

\* flush that leaves the sink as it is
flush_KeepSink(h) == [h EXCEPT !.queue = Append(@, h.sink), !.flushed = Append(@, h.sink)]

\* Write::flush for TerminalHandle: the receiver lives as long as the sender,
\* so send succeeds
flush(h) == [h EXCEPT !.queue = Append(@, h.sink), !.flushed = Append(@, h.sink), !.sink = <<>>]

\* the writer task, one turn of its loop: recv, then Handle::data, whose error is logged
recv_data(h, ok) ==
  [h EXCEPT !.queue = Tail(@), !.sent = Append(@, [data |-> Head(h.queue), ok |-> ok])]

Write(c, b) ==
  /\ Len(pump[c].sink) < MaxSink
  /\ pump' = [pump EXCEPT ![c] = write(@, <<b>>)]
  /\ UNCHANGED <<srv, lk>>

Flush(c) ==
  /\ Len(pump[c].flushed) < MaxFlush
  /\ pump' = [pump EXCEPT ![c] = flush(@)]
  /\ UNCHANGED <<srv, lk>>

WriterTask(c, ok) ==
  /\ pump[c].queue # <<>>
  /\ pump' = [pump EXCEPT ![c] = recv_data(@, ok)]
  /\ UNCHANGED <<srv, lk>>

\* ----------------------------------------------------------------- actions
ChatTexts == {<<"hi">>, <<"/info", SP, "b">>}

CtlTexts == {<<"/ban", SP, "b">>, <<"/reload">>}

AdminTexts == CtlTexts \cup {
  <<"/commit">>,
  <<"/rename", SP, "b", SP, "b", "!">>,
  <<"/add", SP>> \o <<Algo, SP, "K3", SP, "c">> }

Orders == {<<"K1", "K2", "K3">>, <<"K3", "K2", "K1">>}

\* what the environment decides in a command: whether the file system accepts
\* the write of /commit, and the order in which /reload meets the stray keys
NdFor(text) ==
  [io : IF text = <<"/commit">> THEN BOOLEAN ELSE {TRUE},
   order : IF text = <<"/reload">> THEN Orders ELSE {<<"K1", "K2", "K3">>}]

Alive(id) == phase[id] \in {"preauth", "authed", "open"}

RoomToRender == Cardinality(renders) < MaxRenders

Init ==
  /\ authfile = <<LineA, LineB>>
  /\ LET f == read(authfile, 0) IN
       /\ keychain = f.entities
       /\ key_data_pool = f.key_pool
       /\ key_data_to_user = KeyToUser(f.entities)
       /\ personas = f.personas
  /\ key_data_to_id = EmptyMap
  /\ id_to_user = EmptyMap
  /\ clients = EmptyMap
  /\ history = <<>>
  /\ renders = {}
  /\ next_id = 0
  /\ issued = <<>>
  /\ phase = [i \in Ids |-> "none"]
  /\ banned = {}
  /\ last = NoLast
  /\ lk = NoTasks
  /\ pump = [c \in Chans |-> NoOutput]

NewClient(limit) ==
  /\ next_id < limit
  /\ LET n == new_client(next_id) IN
       /\ next_id' = n.server
       /\ issued' = Append(issued, n.handler)
       /\ phase' = [phase EXCEPT ![n.handler] = "preauth"]
       /\ last' = [NoLast EXCEPT !.op = "new_client", !.id = n.handler]
  /\ UNCHANGED <<authfile, keychain, key_data_pool, key_data_to_user, key_data_to_id,
                 id_to_user, clients, personas, history, renders, banned, lk, pump>>

\* a handler of session id returned r: the state it leaves, and the session ends
\* when it panicked or asked for the disconnect
Finish(op, id, r, ok, text, role) ==
  /\ Store(r.st)
  /\ phase' = [phase EXCEPT ![id] = IF r.res \in {"panic", "Disconnect"} THEN "ended"
                                    ELSE IF r.res = "Reject" THEN "preauth" ELSE ok]
  /\ last' = [NoLast EXCEPT !.op = op, !.id = id, !.cmd = r.cmd, !.res = r.res, !.key = r.key,
                            !.evicted = r.evicted, !.closed = r.closed, !.pool = r.pool,
                            !.token = Split(text)[1], !.text = text, !.role = role,
                            !.wrote = r.wrote]
  /\ UNCHANGED <<next_id, issued, lk, pump>>

AuthPublickey(id, key) ==
  /\ phase[id] = "preauth"
  /\ Finish("auth_publickey", id, auth_publickey(Cur, id, key), "authed", <<>>, "Normal")

ChannelOpenSession(id) ==
  /\ phase[id] \in {"authed", "open"}
  /\ Finish("channel_open_session", id, channel_open_session(Cur, id), "open", <<>>, "Normal")

CtrlC(id) ==
  /\ phase[id] = "open"
  /\ RoomToRender
  /\ Finish("ctrl_c", id, ctrl_c(Cur, id), "open", <<>>, "Normal")

\* the role Command::parse is given for the issuer
RoleOf(id) == IF id \in DOMAIN id_to_user THEN personas[id_to_user[id].pid].role ELSE "Normal"

Enter(id, text, nd) ==
  /\ phase[id] = "open"
  /\ RoomToRender
  /\ Split(text)[1] = <<"/reload">> => Len(personas) + Len(authfile) <= MaxPersonas
  /\ Split(text)[1] = <<"/add">> => Len(personas) < MaxPersonas
  /\ Finish("enter", id, enter(Cur, id, text, nd, phase), "open", text, RoleOf(id))

Redraw(op, id) ==
  /\ phase[id] = "open"
  /\ RoomToRender
  /\ Store(redraw(Cur, id).st)
  /\ last' = [NoLast EXCEPT !.op = op]
  /\ UNCHANGED <<next_id, issued, phase, lk, pump>>

PtyRequest(id) == Redraw("pty_request", id)

WindowChangeRequest(id) == Redraw("window_change_request", id)

Keystroke(id) == Redraw("data", id)

\* the task render spawned draws the snapshot for every client (main.rs 151-185)
Draw(snapshot) ==
  /\ renders' = renders \ {snapshot}
  /\ last' = [NoLast EXCEPT !.op = "render", !.snapshot = snapshot,
                            !.frames = [id \in DOMAIN clients |-> paragraphs(snapshot, id, personas)]]
  /\ UNCHANGED <<authfile, keychain, key_data_pool, key_data_to_user, key_data_to_id,
                 id_to_user, clients, personas, history, next_id, issued, phase, banned, lk, pump>>

RenderTask == \E snapshot \in renders : Draw(snapshot)

\* the transport fails or the peer goes away: the session ends, its handler is dropped
SessionError(id) ==
  /\ Alive(id)
  /\ phase' = [phase EXCEPT ![id] = "ended"]
  /\ last' = [NoLast EXCEPT !.op = "handle_session_error", !.id = id]
  /\ UNCHANGED <<authfile, keychain, key_data_pool, key_data_to_user, key_data_to_id,
                 id_to_user, clients, personas, history, renders, next_id, issued, banned, lk, pump>>

DropTask(id) ==
  /\ phase[id] = "ended"
  /\ Store(drop(Cur, id))
  /\ phase' = [phase EXCEPT ![id] = "dropped"]
  /\ last' = [NoLast EXCEPT !.op = "drop", !.id = id]
  /\ UNCHANGED <<next_id, issued, lk, pump>>

\* the operator rewrites the authfile on disk
EditFile(f) ==
  /\ f # authfile
  /\ authfile' = f
  /\ last' = [NoLast EXCEPT !.op = "edit"]
  /\ UNCHANGED <<keychain, key_data_pool, key_data_to_user, key_data_to_id, id_to_user,
                 clients, personas, history, renders, next_id, issued, phase, banned, lk, pump>>

\* the events of the SSH library on the sessions
Lifecycle ==
  \/ NewClient(MaxConns)
  \/ \E id \in Ids, key \in KeyBlobs : AuthPublickey(id, key)
  \/ \E id \in Ids : ChannelOpenSession(id)
  \/ \E id \in Ids : CtrlC(id)
  \/ \E id \in Ids : SessionError(id)
  \/ \E id \in Ids : DropTask(id)

\* the control plane: sessions come and go while the commands of AdminTexts are
\* typed and the operator edits the authfile
Next ==
  \/ Lifecycle
  \/ \E id \in Ids, text \in AdminTexts : \E nd \in NdFor(text) : Enter(id, text, nd)
  \/ RenderTask
  \/ \E f \in Files : EditFile(f)

Spec == Init /\ [][Next]_vars

\* the chat: messages, dossiers and redraws
NextChat ==
  \/ Lifecycle
  \/ \E id \in Ids, text \in ChatTexts : \E nd \in NdFor(text) : Enter(id, text, nd)
  \/ \E id \in Ids : PtyRequest(id)
  \/ \E id \in Ids : WindowChangeRequest(id)
  \/ \E id \in Ids : Keystroke(id)
  \/ RenderTask

SpecChat == Init /\ [][NextChat]_vars

\* the first channel of a session
FirstChannel(id) == phase[id] = "authed" /\ ChannelOpenSession(id)

\* a command typed while every authenticated session has its channel
Command(id, text, nd) == (\A i \in Ids : phase[i] # "authed") /\ Enter(id, text, nd)

\* several sessions under one key, each with one channel, leaving with Ctrl-C
NextSameKey ==
  \/ NewClient(MaxSessions)
  \/ \E id \in Ids, key \in {"K1", "K2"} : AuthPublickey(id, key)
  \/ \E id \in Ids : FirstChannel(id)
  \/ \E id \in Ids : CtrlC(id)
  \/ \E id \in Ids, text \in CtlTexts : \E nd \in NdFor(text) : Command(id, text, nd)
  \/ RenderTask
  \/ \E f \in Files : EditFile(f)

SpecSameKey == Init /\ [][NextSameKey]_vars

\* files that drop the key of the admin or hold a line with an unknown role
ErrFiles == {<<LineA, LineB>>, <<LineB>>, <<LineA, LineBGuest>>}

ErrTexts == {<<"/ban", SP, "a">>, <<"/ban", SP, "b">>, <<"/reload">>}

\* as NdFor, and the authfile may be unreadable when /reload opens it
NdErr(text) ==
  [io : IF text = <<"/reload">> THEN BOOLEAN ELSE {TRUE},
   order : IF text = <<"/reload">> THEN Orders ELSE {<<"K1", "K2", "K3">>}]

\* commands that fail: a ban of oneself, a reload of a bad or unreadable file,
\* a reload that meets a session whose transport is gone
NextErr ==
  \/ Lifecycle
  \/ \E id \in Ids, text \in ErrTexts : \E nd \in NdErr(text) : Enter(id, text, nd)
  \/ RenderTask
  \/ \E f \in ErrFiles : EditFile(f)

SpecErr == Init /\ [][NextErr]_vars

\* renames whose new name loses characters, becomes empty or holds a colon, and
\* a rename of the entities without a name
CommitTexts == {
  <<"/commit">>,
  <<"/rename", SP, "b", SP, "c", COLON, "admin">>,
  <<"/rename", SP, "a", SP, "!">>,
  <<"/rename", SP, "c", "admin", SP, "!", "b">>,
  <<"/rename", SP, SP, "b">> }

\* the keychain is renamed and written back to the authfile
NextCommit ==
  \/ Lifecycle
  \/ \E id \in Ids, text \in CommitTexts : \E nd \in NdFor(text) : Enter(id, text, nd)
  \/ RenderTask

SpecCommit == Init /\ [][NextCommit]_vars

\* files that keep both keys and change the role of one or the name of the other
ReloadFiles == {<<LineA, LineB>>, <<LineANormal, LineB>>, <<LineA, LineC>>}

ReloadTexts == CtlTexts \cup {<<"/commit">>, <<"/rename", SP, "b", SP, "hi">>}

\* the authfile changes under sessions that stay connected through the reload
NextReload ==
  \/ Lifecycle
  \/ \E id \in Ids, text \in ReloadTexts : \E nd \in NdFor(text) : Enter(id, text, nd)
  \/ RenderTask
  \/ \E f \in ReloadFiles : EditFile(f)

SpecReload == Init /\ [][NextReload]_vars

\* a Return while render tasks of earlier events have not run yet
EnterBehind(id, text, nd) ==
  /\ phase[id] = "open"
  /\ Cardinality(renders) < MaxPending
  /\ Finish("enter", id, enter(Cur, id, text, nd, phase), "open", text, RoleOf(id))

\* chat messages follow each other faster than the render tasks run; the
\* runtime picks any of the spawned tasks
NextRender ==
  \/ Lifecycle
  \/ \E id \in Ids, text \in ChatTexts : \E nd \in NdFor(text) : EnterBehind(id, text, nd)
  \/ RenderTask

SpecRender == Init /\ [][NextRender]_vars

\* the backends write and flush, the writer tasks call Handle::data
NextPump ==
  \/ \E c \in Chans, b \in Bytes : Write(c, b)
  \/ \E c \in Chans : Flush(c)
  \/ \E c \in Chans, ok \in BOOLEAN : WriterTask(c, ok)

\* the runtime keeps scheduling a writer task that has a chunk to receive
SpecPump == Init /\ [][NextPump]_vars /\ \A c \in Chans : WF_vars(\E ok \in BOOLEAN : WriterTask(c, ok))

\* the handlers seen at the level of their lock requests
NextLocks ==
  \/ \E t \in Tasks, h \in DOMAIN Programs : LockStart(t, h)
  \/ \E t \in Tasks : LockAcquire(t)
  \/ \E t \in Tasks : LockRelease(t)
  \/ \E t \in Tasks : LockReturn(t)

SpecLocks == Init /\ [][NextLocks]_vars

\* ---------------------------------------------------------------------------
\* Properties

\* the ids of the clients whose entity has key k
ClientsOf(k) == {id \in DOMAIN clients : id \in DOMAIN id_to_user /\ id_to_user[id].key = k}

\* the ids listed in some vector of key_data_to_id
Listed == UNION {Range(key_data_to_id[k]) : k \in DOMAIN key_data_to_id}

\* the keys of the entities of the keychain
KeychainKeys == {keychain[i].key : i \in DOMAIN keychain}

\* no session is between its authentication and its channel, no handler is
\* waiting for its drop task, no render task is pending
Quiescent == renders = {} /\ \A id \in Ids : phase[id] \notin {"authed", "ended"}

\* a /ban that went past the lookup and the self-ban test and returned Ok
BanReturned == last.op = "enter" /\ last.cmd = "Ban" /\ last.res = "ok" /\ last.key # NoKey

\* a /reload that returned Ok
ReloadReturned == last.op = "enter" /\ last.cmd = "Reload" /\ last.res = "ok"

\* C1: once a /ban of an entity by an admin with another key has returned
\* without error, the key of the entity is out of the key pool and no client
\* authenticated with that key is left in clients, whatever sessions under that
\* key left with Ctrl-C before.
C1_BanEvictsEverySession ==
  BanReturned => last.key \notin key_data_pool /\ ClientsOf(last.key) = {}

\* C2: once a /reload has returned without error, the key pool is the set of
\* keys of the file that was read and every client left in clients has a key of
\* that set, whatever sessions left with Ctrl-C before.
C2_ReloadEvictsEveryStray ==
  ReloadReturned =>
    /\ key_data_pool = last.pool
    /\ \A id \in DOMAIN clients : id \in DOMAIN id_to_user /\ id_to_user[id].key \in last.pool

\* C3: a step in which a client with the Normal role submits a text whose first
\* token is one of /add, /rename, /commit, /ban, /reload ends with NotAnAdmin and
\* leaves the keychain, the key pool, the two key maps and the authfile as they
\* were, and removes no client.
C3_NormalRoleChangesNothing ==
  [][(/\ last'.op = "enter"
      /\ last'.id \in DOMAIN clients
      /\ last'.role = "Normal"
      /\ last'.token \in AdminTokens)
     => (/\ last'.res = "NotAnAdmin"
         /\ UNCHANGED <<keychain, key_data_pool, key_data_to_user, key_data_to_id, authfile>>
         /\ DOMAIN clients' = DOMAIN clients
         /\ id_to_user' = id_to_user)]_vars

\* a Normal client typed /ban and got NotAnAdmin while the target was connected
C3_Witness ==
  /\ last.op = "enter" /\ last.res = "NotAnAdmin" /\ last.token = <<"/ban">>
  /\ last.role = "Normal"
  /\ Cardinality(DOMAIN clients) = 2

\* C4: in every frame the render task draws, a dossier of the snapshot is among
\* the paragraphs of a client exactly when that client is the one that asked
\* for it.
C4_DossierOnlyForRequester ==
  last.op = "render" =>
    \A id \in DOMAIN last.frames : \A m \in Range(last.snapshot) :
      m.type = "Dossier" =>
        (m.requested_by = id <=>
           \E i \in DOMAIN last.frames[id] :
              /\ last.frames[id][i].type = "Dossier"
              /\ last.frames[id][i].requested_by = m.requested_by)

\* a frame was drawn for the client that asked and for one that did not
C4_Witness ==
  /\ last.op = "render"
  /\ \E a \in DOMAIN last.frames, b \in DOMAIN last.frames :
       /\ a # b
       /\ \E i \in DOMAIN last.frames[a] : last.frames[a][i].type = "Dossier"
       /\ \A i \in DOMAIN last.frames[b] : last.frames[b][i].type # "Dossier"
       /\ last.frames[b] # <<>>

\* C5: at every quiescent state each key with an entry in key_data_to_id is in
\* the key pool, and each id in its vector is the id of a client and is mapped
\* by id_to_user to an entity with that key.
C5_KeyToIdsConsistent ==
  Quiescent =>
    \A k \in DOMAIN key_data_to_id :
      /\ k \in key_data_pool
      /\ \A id \in Range(key_data_to_id[k]) :
           /\ id \in DOMAIN clients
           /\ id \in DOMAIN id_to_user
           /\ id_to_user[id].key = k

\* C6: at every quiescent state the ids of clients are the ids of id_to_user.
C6_ClientsAreIdToUser == Quiescent => DOMAIN clients = DOMAIN id_to_user

\* C7 as stated: at every quiescent state the key pool is the set of keys of
\* the entities of the keychain.
C7_PoolIsKeychainKeys == Quiescent => key_data_pool = KeychainKeys

\* C7: the key pool is the set of keys of the entities of the keychain less the
\* keys a /ban removed since the keychain was last loaded.
C7_PoolIsKeychainKeysLessBanned ==
  /\ banned \subseteq KeychainKeys
  /\ key_data_pool = KeychainKeys \ banned

\* a /ban returned and its key is still the key of an entity of the keychain
C7_Witness ==
  BanReturned /\ last.key \in banned /\ last.key \in KeychainKeys /\ last.key \notin key_data_pool

\* C8: the keys of key_data_to_user are the keys of the pool, and each key is
\* mapped to an entity of the keychain that has this key.
C8_KeyToUserCoversPool ==
  /\ DOMAIN key_data_to_user = key_data_pool
  /\ \A k \in DOMAIN key_data_to_user :
       /\ key_data_to_user[k].key = k
       /\ key_data_to_user[k] \in Range(keychain)

\* a /reload of a shorter file returned after a /ban had shrunk the pool
C8_Witness == ReloadReturned /\ key_data_pool = {"K1"} /\ Len(personas) > 2

\* C9: the ids new_client handed out are pairwise distinct and below the
\* counter, and so are the ids of the clients.
C9_IdsAreFresh ==
  /\ \A i \in DOMAIN issued, j \in DOMAIN issued : issued[i] = issued[j] => i = j
  /\ \A i \in DOMAIN issued : issued[i] < next_id
  /\ \A id \in DOMAIN clients : id < next_id /\ id \in Range(issued)

\* two handlers were handed out and both own a client
C9_Witness == Len(issued) = 2 /\ Cardinality(DOMAIN clients) = 2

\* C10: once a /ban or a /reload has returned, each client it evicted is out of
\* clients, out of id_to_user and out of every vector of key_data_to_id, and its
\* handle was closed.
C10_EvictedLeaveEveryIndex ==
  (last.op = "enter" /\ last.cmd \in {"Ban", "Reload"} /\ last.res # "panic") =>
    \A id \in last.evicted :
      /\ id \notin DOMAIN clients
      /\ id \notin DOMAIN id_to_user
      /\ id \notin Listed
      /\ id \in last.closed

\* the indexes of the server and the set of its clients stay as they are
IndexesUnchanged ==
  /\ UNCHANGED <<keychain, key_data_pool, key_data_to_user, key_data_to_id, id_to_user>>
  /\ DOMAIN clients' = DOMAIN clients

\* text is "/ban <lookup>" and the lookup resolves to an entity with the key of
\* the client id, an admin
SelfBan(id, text) ==
  /\ id \in DOMAIN clients /\ id \in DOMAIN id_to_user
  /\ RoleOf(id) = "Admin"
  /\ Len(Split(text)) = 2 /\ Split(text)[1] = <<"/ban">>
  /\ EntityLookup_from_str(Split(text)[2]).ok
  /\ FirstMatch(Cur, EntityLookup_from_str(Split(text)[2])) # 0
  /\ keychain[FirstMatch(Cur, EntityLookup_from_str(Split(text)[2]))].key = id_to_user[id].key

\* C11: a step in which an admin submits a /ban whose lookup resolves to an
\* entity with the admin's own key ends with NoBanSelf and leaves the keychain,
\* the pool, the key maps, id_to_user and the set of clients as they were.
C11_NoBanSelfChangesNothing ==
  [][(last'.op = "enter" /\ SelfBan(last'.id, last'.text))
     => (last'.res = "NoBanSelf" /\ IndexesUnchanged)]_vars

\* an admin banned themselves while another client was connected
C11_Witness ==
  /\ last.op = "enter" /\ last.cmd = "Ban" /\ last.res = "NoBanSelf"
  /\ last.role = "Admin"
  /\ Cardinality(DOMAIN clients) = 2

\* C12: a step in which /reload returns an error leaves the keychain, the pool,
\* the key maps, id_to_user and the set of clients as they were.
C12_FailedReloadChangesNothing ==
  [][(last'.op = "enter" /\ last'.cmd = "Reload" /\ last'.res \notin {"ok", "panic"})
     => IndexesUnchanged]_vars

\* the ids listed under key k, none when the key has no entry
IdsOf(k) == IF k \in DOMAIN key_data_to_id THEN key_data_to_id[k] ELSE <<>>

\* C13: auth_publickey accepts exactly when the key offered is a key of
\* key_data_to_user; when it accepts, id_to_user gains the binding of the id to
\* the entity of that key and the id is appended to the vector of the key, and
\* nothing else changes; when it rejects, no index and no history entry changes.
C13_AuthBindsOrRejects ==
  [][last'.op = "auth_publickey" =>
       /\ last'.res = (IF last'.key \in DOMAIN key_data_to_user THEN "Accept" ELSE "Reject")
       /\ UNCHANGED <<keychain, key_data_pool, key_data_to_user, clients, history, personas>>
       /\ last'.res = "Accept" =>
            /\ id_to_user' = Insert(id_to_user, last'.id, key_data_to_user[last'.key])
            /\ key_data_to_id' = Insert(key_data_to_id, last'.key, IdsOf(last'.key) \o <<last'.id>>)
       /\ last'.res = "Reject" => UNCHANGED <<id_to_user, key_data_to_id>>]_vars

\* a second session was accepted under a key that already had one
C13_Witness ==
  /\ last.op = "auth_publickey" /\ last.res = "Accept"
  /\ Len(key_data_to_id[last.key]) = 2

\* the position of each lock in the order entities, key_pool, key_to_entity,
\* key_to_conns, conn_to_entity, clients, app
Rank ==
  [l \in Locks |->
     CASE l = "keychain" -> 1 [] l = "key_data_pool" -> 2 [] l = "key_data_to_user" -> 3
       [] l = "key_data_to_id" -> 4 [] l = "id_to_user" -> 5 [] l = "clients" -> 6
       [] OTHER -> 7]

\* C14: no handler asks for a lock while it holds a guard of a lock that comes
\* later in the order keychain, key_data_pool, key_data_to_user, key_data_to_id,
\* id_to_user, clients, app.
C14_LocksTakenInOrder ==
  \A t \in Tasks : Requesting(t) => \A g \in lk[t].held : Rank[g.l] < Rank[Wants(t)]

\* C15: there is no set of tasks each of which waits for a lock whose guard is
\* held by another task of the set.
C15_NoDeadlock ==
  ~ \E T \in SUBSET Tasks :
      /\ T # {}
      /\ \A t \in T : Requesting(t) /\ \E u \in T : Blocks(u, t)

\* C16: the history never holds more than history_size messages, and a step
\* that appends to it keeps the messages it had in their order with the new one
\* last, less the oldest one when the history was full.
C16_HistoryIsBoundedQueue ==
  /\ [](Len(history) <= history_size)
  /\ [][history' # history =>
          history' = (IF Len(history) = history_size THEN Tail(history) ELSE history)
                     \o <<history'[Len(history')]>>]_vars

\* the announcements of the joins have been pushed out by chat messages
C16_Witness ==
  /\ Len(history) = history_size
  /\ \A i \in DOMAIN history : history[i].type = "Plain"
  /\ last.op = "enter" /\ last.cmd = "Plain"

\* entity i of the keychain as key, name and role
Shown(i) ==
  [key |-> keychain[i].key, name |-> personas[keychain[i].pid].name,
   role |-> personas[keychain[i].pid].role]

\* entity i of a file that was read, as key, name and role
ShownIn(f, i) ==
  [key |-> f.entities[i].key, name |-> f.personas[i].name, role |-> f.personas[i].role]

\* C17: after a /commit that wrote the authfile, reading the authfile gives as
\* many entities as the keychain has, and at each position the same key, the
\* same name and the same role.
C17_CommitThenReadIsKeychain ==
  [][(last'.op = "enter" /\ last'.cmd = "Commit" /\ last'.wrote) =>
       /\ read(authfile', 0).ok
       /\ Len(read(authfile', 0).entities) = Len(keychain)
       /\ \A i \in DOMAIN keychain : ShownIn(read(authfile', 0), i) = Shown(i)]_vars

\* a commit wrote an admin without a name and a renamed entity
C17_Witness ==
  /\ last.op = "enter" /\ last.cmd = "Commit" /\ last.wrote
  /\ Shown(1).name = <<>> /\ Shown(1).role = "Admin"
  /\ Shown(2).name = <<"c", "admin">>

\* the text "/add " followed by the authfile line of key K3 with the comment c
AddLine == <<"/add", SP, Algo, SP, "K3", SP, "c">>

\* C18: when an admin enters "/add " followed by a valid authfile line, the
\* text is run as the command Add and the key of the line is in the pool that
\* auth_publickey consults afterwards.
C18_AddLineIsAccepted ==
  [][(last'.op = "enter" /\ last'.text = AddLine /\ last'.role = "Admin") =>
       (last'.cmd = "Add" /\ "K3" \in key_data_pool')]_vars

\* C19: when a session leaves with Ctrl-C, its id leaves id_to_user and
\* clients, every other live id of the vector of its key stays listed under
\* that key, and the entry of the key goes only when no other id was in it.
C19_CtrlCRemovesOnlyItsId ==
  [][(last'.op = "ctrl_c" /\ last'.res = "Disconnect") =>
       /\ last'.id \notin DOMAIN id_to_user'
       /\ last'.id \notin DOMAIN clients'
       /\ \A j \in Range(IdsOf(last'.key)) \ {last'.id} :
            Alive(j) => /\ last'.key \in DOMAIN key_data_to_id'
                        /\ j \in Range(key_data_to_id'[last'.key])
       /\ last'.key \in DOMAIN key_data_to_id' => last'.id \notin Range(key_data_to_id'[last'.key])
       /\ last'.key \notin DOMAIN key_data_to_id' => Range(IdsOf(last'.key)) \subseteq {last'.id}]_vars

\* the positions of the keychain whose entity has the name from
Named(from) == {i \in DOMAIN keychain : personas[keychain[i].pid].name = from}

\* the personas after the first entity named from, if any, took the sanitized to
FirstRenamed(from, to) ==
  IF Named(from) = {} THEN personas
  ELSE [personas EXCEPT ![keychain[CHOOSE i \in Named(from) : \A j \in Named(from) : i <= j].pid].name =
                            sanitize_name(to)]

\* C20: /rename from to gives the sanitized to as name to the first entity of
\* the keychain named from, and every other entity, later ones named from
\* included, keeps its name.
C20_RenameChangesFirstOnly ==
  [][(last'.op = "enter" /\ last'.cmd = "Rename") =>
       personas' = FirstRenamed(Split(last'.text)[2], Split(last'.text)[3])]_vars

\* the handlers that end with a call of render
Rendering == {"enter", "ctrl_c", "pty_request", "window_change_request", "data"}

\* the newest message of a history, a message of no type when there is none
Newest(h) == IF h = <<>> THEN Msg("none", "none", 0, <<>>, 0 - 1) ELSE h[Len(h)]

\* C21: every snapshot a handler hands to a render task is the history as the
\* handler left it, so it holds the message the handler appended: the chat
\* message of a Return, the dossier of an /info, the Left of a Ctrl-C.
C21_RenderSeesOwnMessage ==
  [][last'.op \in Rendering =>
       /\ renders' \ renders \subseteq {history'}
       /\ (last'.op = "enter" /\ last'.res # "panic") => history' \in renders'
       /\ last'.cmd = "Plain" =>
            /\ Newest(history').type = "Plain"
            /\ SubSeq(Newest(history').contents,
                      Len(Newest(history').contents) - Len(last'.text) + 1,
                      Len(Newest(history').contents)) = last'.text
       /\ (last'.cmd = "Info" /\ history' # history) =>
            (Newest(history').type = "Dossier" /\ Newest(history').requested_by = last'.id)
       /\ (last'.op = "ctrl_c" /\ last'.res = "Disconnect") =>
            (history' \in renders' /\ Newest(history').action = "Left")]_vars

\* a chat message was rendered after earlier messages had been pushed out
C21_Witness ==
  /\ last.op = "enter" /\ last.cmd = "Plain"
  /\ history \in renders
  /\ Len(history) = history_size
  /\ \A i \in DOMAIN history : history[i].type = "Plain"

\* the entities bound to sessions whose persona cell is p and whose key is
\* still a key of key_data_to_user
BoundTo(p) ==
  {id_to_user[id] : id \in {i \in DOMAIN id_to_user :
                              id_to_user[i].pid = p /\ id_to_user[i].key \in DOMAIN key_data_to_user}}

\* the text of an announcement of entity e with the name and role that
\* key_data_to_user gives for its key now
LiveText(m, e) ==
  <<m.action>> \o personas[key_data_to_user[e.key].pid].name
               \o <<RoleText(personas[key_data_to_user[e.key].pid].role)>>

\* C22: in every frame the render task draws, the paragraph of a Joined or
\* Left announcement carries the name and role the announced entity has when
\* the frame is drawn, whatever /rename and /reload did since the announcement.
C22_AnnounceShowsLivePersona ==
  last.op = "render" =>
    \A id \in DOMAIN last.frames : \A m \in Range(last.snapshot) :
      m.type = "Announce" =>
        \A e \in BoundTo(m.pid) :
          \E i \in DOMAIN last.frames[id] : last.frames[id][i].text = LiveText(m, e)

\* the keys of the lines of the authfile f
FileKeys(f) == read(f, 0).key_pool

\* C23: a /ban leaves the keychain and the personas as they were; a /commit
\* that writes the authfile writes a line for every entity of the keychain, the
\* banned ones included; a /reload that returns Ok makes the keys of the file,
\* a banned key among them, the key pool and the keys of key_data_to_user.
C23_BanKeepsEntityForCommit ==
  [][/\ (last'.op = "enter" /\ last'.cmd = "Ban") =>
          (keychain' = keychain /\ personas' = personas)
     /\ (last'.op = "enter" /\ last'.cmd = "Commit" /\ last'.wrote) =>
          (banned \subseteq KeychainKeys /\ KeychainKeys \subseteq FileKeys(authfile'))
     /\ (last'.op = "enter" /\ last'.cmd = "Reload" /\ last'.res = "ok") =>
          (/\ key_data_pool' = FileKeys(authfile)
           /\ DOMAIN key_data_to_user' = FileKeys(authfile)
           /\ banned \cap FileKeys(authfile) \subseteq key_data_pool')]_vars

\* the key of b is back in the pool after it was banned, renamed and written
\* by /commit: the line with the name hi comes from no file of the operator
C23_Witness ==
  /\ ReloadReturned
  /\ "K2" \in key_data_pool
  /\ "K2" \in DOMAIN key_data_to_user
  /\ personas[key_data_to_user["K2"].pid].name = <<"hi">>
  /\ \E id \in DOMAIN id_to_user :
       id_to_user[id].key = "K2" /\ id \notin DOMAIN clients /\ phase[id] = "open"

\* the chunks of the data calls of channel c, in the order of the calls
Delivered(c) == [i \in DOMAIN pump[c].sent |-> pump[c].sent[i].data]

\* C24: on each channel the chunks of the data calls followed by the chunks
\* still queued are the chunks flushed, in the order of the flushes; a flush
\* leaves the sink empty; every chunk flushed is passed to a data call,
\* whatever the data calls before it returned.
C24_PumpDeliversInOrder ==
  /\ [](\A c \in Chans : Delivered(c) \o pump[c].queue = pump[c].flushed)
  /\ [][\A c \in Chans : pump'[c].flushed # pump[c].flushed => pump'[c].sink = <<>>]_vars
  /\ \A c \in Chans : \A n \in 1 .. MaxFlush :
       (Len(pump[c].flushed) >= n) ~> (Len(pump[c].sent) >= n)

\* a data call failed and the chunk flushed after it was delivered all the same
C24_Witness ==
  \E c \in Chans :
    /\ Len(pump[c].sent) = 2
    /\ ~pump[c].sent[1].ok
    /\ pump[c].sent[2].ok
    /\ pump[c].sent[2].data # pump[c].sent[1].data
    /\ Delivered(c) = pump[c].flushed

\* C25: when the Return of a client ends in an error of the parser or of the
\* command, the statusline of that client shows the error, every other client
\* is left as it was, no client is removed and the history gets no message.
C25_ErrorGoesToIssuerOnly ==
  [][(/\ last'.op = "enter"
      /\ last'.res \notin {"ok", "panic"}
      /\ last'.id \in DOMAIN clients)
     => (/\ history' = history
         /\ DOMAIN clients' = DOMAIN clients
         /\ \A id \in DOMAIN clients \ {last'.id} : id \in DOMAIN clients' /\ clients'[id] = clients[id]
         /\ last'.id \in DOMAIN clients' /\ clients'[last'.id].statusline.kind = last'.res)]_vars

\* C26: no /reload aborts on the lookup clients[id] of an id listed under a
\* stray key: every such id is the id of a client when the reload meets it.
C26_ReloadFindsEveryClient ==
  [][(last'.op = "enter" /\ last'.cmd = "Reload") =>
       /\ last'.res # "panic"
       /\ \A k \in (key_data_pool \ FileKeys(authfile)) \cap DOMAIN key_data_to_id :
            Range(key_data_to_id[k]) \subseteq DOMAIN clients]_vars

\* C27: a handler that calls entity() runs with its own id bound in
\* id_to_user: the Ctrl-C branch and channel_open_session always, the Return
\* branch when the session has a client; none of them aborts on the lookup.
C27_EntityFindsOwnId ==
  [][/\ last'.op \in {"ctrl_c", "channel_open_session"} =>
          (last'.id \in DOMAIN id_to_user /\ last'.res # "panic")
     /\ (last'.op = "enter" /\ last'.id \in DOMAIN clients) =>
          (last'.id \in DOMAIN id_to_user /\ (last'.res = "panic" => last'.cmd = "Reload"))]_vars

\* the clients whose session is bound to an entity with a key of key_data_to_user
Staying ==
  {id \in DOMAIN clients : id \in DOMAIN id_to_user /\ id_to_user[id].key \in DOMAIN key_data_to_user}

\* C28: once a /reload has returned Ok, every session that stays connected is
\* bound in id_to_user to the entity key_data_to_user holds for its key, so the
\* role that gates its commands and the name a /rename changes are those of the
\* reloaded file.
C28_ReloadRebindsSessions ==
  ReloadReturned =>
    \A id \in Staying :
      /\ id_to_user[id] = key_data_to_user[id_to_user[id].key]
      /\ RoleOf(id) = personas[key_data_to_user[id_to_user[id].key].pid].role

\* C29: a session whose client a /ban removed gets no client again by opening
\* a channel on its connection: channel_open_session under a banned key
\* inserts no Client and announces nothing.
C29_BannedStaysOut ==
  [][(/\ last'.op = "channel_open_session"
      /\ phase[last'.id] = "open"
      /\ last'.id \notin DOMAIN clients
      /\ last'.id \in DOMAIN id_to_user
      /\ id_to_user[last'.id].key \in banned)
     => (last'.id \notin DOMAIN clients' /\ history' = history)]_vars

\* C30: a render task with an older snapshot never draws after the render
\* task with the newest one: once a task has drawn the history as it is now,
\* the task that draws next draws that history too, so that the frame every
\* client is left with when no task remains is the one of the latest history.
C30_OlderNeverDrawsAfterNewer ==
  [][(last.op = "render" /\ last.snapshot = history /\ last'.op = "render") =>
       (/\ last'.snapshot = history
        /\ \A id \in DOMAIN clients :
             id \in DOMAIN last'.frames /\ last'.frames[id] = paragraphs(history, id, personas))]_vars

\* C31: once the task that Drop spawns for the handler of an ended session has
\* run, which is the last code that runs for that session, the id of the
\* session is in none of clients, id_to_user and the vectors of key_data_to_id.
C31_DroppedLeavesEveryIndex ==
  last.op = "drop" =>
    /\ last.id \notin DOMAIN clients
    /\ last.id \notin DOMAIN id_to_user
    /\ last.id \notin Listed

====
